---- MODULE Spec2Model ----
(***************************************************************************)
(* Authentication and session lifecycle of renfound_v1: the user service   *)
(* (AuthWithTelegram, RefreshTokens, Logout, LogoutAll, DeleteUser), the    *)
(* PostgreSQL user/session repository it calls, the JWT authority and the  *)
(* background worker pool that persists session rows.                       *)
(* SpecHTTP adds the HTTP handlers of login and logout with init data of    *)
(* every shape; SpecAuth is the token authority on its own, with tokens as  *)
(* jwt.Parse sees them.                                                      *)
(*                                                                          *)
(* Every request handler is a process of Procs that advances one database  *)
(* statement (or one channel operation) at a time, so that handlers and    *)
(* workers interleave exactly where the Go code can be pre-empted between   *)
(* two effects on shared state.                                             *)
(***************************************************************************)
EXTENDS Integers, Sequences, FiniteSets, TLC

\* ---------------------------------------------------------------- bounds
NumProcs == 2      \* concurrent request handlers
NumTg == 1         \* distinct Telegram identities that log in
NumProfiles == 2   \* distinct display-attribute payloads per identity
MaxTok == 3        \* refresh tokens generated in one behaviour
MaxUsers == 1      \* user rows created in one behaviour
WorkersCount == 1  \* workers of the pool (NewWorkerPool's first argument)
QueueSize == 1     \* capacity of the tasks channel (second argument)
MaxTime == 1       \* clock ticks in one behaviour
NumShut == 2       \* calls of WorkerPool.Shutdown
MaxSubmit == 3     \* calls of WorkerPool.Submit made directly on the pool
RefreshTTL == 1    \* JWT.RefreshTTL, in clock ticks

Procs == 1..NumProcs
TgIDs == 1..NumTg
Profiles == 1..NumProfiles
Workers == 1..WorkersCount
ShutCallers == 1..NumShut

VARIABLES
    users,      \* table users: set of [id, tg, profile]
    sessions,   \* table sessions: set of [id, user, tok]
    nUsers,     \* user ids handed out by uuid.New() in NewUser
    nTok,       \* uuid.New() draws made for refresh tokens / session ids
    toks,       \* refresh tokens the service has returned to callers
    now,        \* wall clock, in ticks
    procs,      \* request handlers: position and locals of each
    tasks,      \* WorkerPool.tasks: the buffered channel, a sequence of tasks
    wk,         \* workers: [st, task]
    sd,         \* progress of WorkerPool.Shutdown
    pool,       \* callers of the pool: Shutdown calls, and what became of
                \* the tasks handed to Submit
    payloads,   \* display-attribute payloads that clients send
    initDatas,  \* shapes of the init data that clients send
    cfg,        \* JWT section of the configuration the authority holds
    call        \* the last call made directly on the authority

vars == <<users, sessions, nUsers, nTok, toks, now, procs, tasks, wk, sd, pool, payloads, initDatas, cfg, call>>

\* ------------------------------------------------------------- constants
NoTok == [key |-> "none", uid |-> 0, jti |-> 0, iat |-> 0]
\* a string that is not a JWT signed with the refresh secret
BadToken == [key |-> "bad", uid |-> 0, jti |-> 0, iat |-> 0]
NoSess == [id |-> 0, user |-> 0, tok |-> NoTok]
NoUser == [id |-> 0, tg |-> 0, profile |-> 0]
\* context.Background(), and the context of the request served by handler p
Background == [kind |-> "background", of |-> 0]
RequestContext(p) == [kind |-> "request", of |-> p]
\* a task: the session its closure captured and the context it will use
NoTask == [session |-> NoSess, ctx |-> [kind |-> "none", of |-> 0]]

Idle == [pc |-> "idle", op |-> "none", tok |-> NoTok, tg |-> 0, profile |-> 0,
         uid |-> 0, user |-> NoUser, sess |-> NoSess, res |-> "none",
         out |-> NoTok, pre |-> {}, cover |-> {}, had |-> FALSE,
         removed |-> FALSE, sub |-> "none", cause |-> "none"]

\* no call has been made on the authority
NoCall == [op |-> "none"]
\* the JWT section where it plays no part: the handlers that work on the
\* tables take the refresh TTL of RefreshTTL
NoCfg == [started |-> FALSE]

\* ------------------------------------------------- init data (Telegram)
InitDataTTL == 1   \* the expiration passed to initdata.Validate, in ticks
\* a shape of init data: whether it parses as a query string, what its hash
\* field is, when it was signed, whether it has a user field, and whether
\* that field parses
ValidInitData ==
    [format |-> "ok", hash |-> "valid", authDate |-> 0, user |-> "present"]
TamperedInitData == [ValidInitData EXCEPT !.hash = "invalid"]
UnsignedInitData == [ValidInitData EXCEPT !.hash = "missing"]
MalformedInitData == [ValidInitData EXCEPT !.format = "malformed"]
StaleInitData == [ValidInitData EXCEPT !.authDate = 0 - 2]
GarbledUserInitData == [ValidInitData EXCEPT !.user = "garbled"]
NoUserInitData == [ValidInitData EXCEPT !.user = "absent"]
InitDatas ==
    {ValidInitData, TamperedInitData, UnsignedInitData, MalformedInitData,
     StaleInitData, GarbledUserInitData, NoUserInitData}

\* initdata.Validate: the query string is parsed, the hash must be there, the
\* auth date must not be older than the expiration, the hash must match
InitDataValidate(d, t) ==
    IF d.format = "malformed" THEN "ErrUnexpectedFormat"
    ELSE IF d.hash = "missing" THEN "ErrSignMissing"
    ELSE IF d.authDate + InitDataTTL < t THEN "ErrExpired"
    ELSE IF d.hash = "invalid" THEN "ErrSignInvalid"
    ELSE "nil"

\* initdata.Parse: the user field is decoded into the User struct
InitDataParse(d) == IF d.user = "garbled" THEN "error" ELSE "nil"

\* &data.User == nil: the address of a struct field
UserFieldIsNil(d) == FALSE

\* what ValidateInitData makes of the library's error
InitDataErrRaw(e) == e
InitDataErr(e) == "ErrInvalidInitData"

\* TelegramAuth.ValidateInitData: <<err, cause, TelegramUser.ID, profile>>;
\* id and profile are what the user field carries, zero values without it
ValidateInitData(d, id, profile, t) ==
    LET e == InitDataValidate(d, t)
    IN IF e # "nil" THEN <<InitDataErr(e), e, 0, 0>>
       ELSE IF InitDataParse(d) # "nil"
       THEN <<InitDataErr("ErrParse"), "ErrParse", 0, 0>>
       ELSE IF UserFieldIsNil(d)
       THEN <<InitDataErr("ErrNoUser"), "ErrNoUser", 0, 0>>
       ELSE IF d.user = "present" THEN <<"nil", "none", id, profile>>
       ELSE <<"nil", "none", 0, 0>>

\* ------------------------------------------------------- models.NewUser
NewUser(n, tg, profile) == [id |-> n + 1, tg |-> tg, profile |-> profile]

\* ---------------------------------------------------- models.NewSession
NewSession(n, userID, refreshToken) ==
    [id |-> n + 1, user |-> userID, tok |-> refreshToken]

\* ------------------------------------------------------ token authority
\* the jti claim: uuid.New(), the n+1st draw
NewJtiReused(n) == 0
NewJti(n) == n + 1

generateRefreshToken(userID, n, t) ==
    [key |-> "refresh", uid |-> userID, jti |-> NewJti(n), iat |-> t]

\* jwt.Parse checks the signature first, then exp; result is <<err, userID>>
ValidateRefreshToken(tokenString, t) ==
    IF tokenString.key # "refresh" THEN <<"ErrInvalidToken", 0>>
    ELSE IF t >= tokenString.iat + RefreshTTL THEN <<"ErrExpiredToken", 0>>
    ELSE <<"nil", tokenString.uid>>

\* -------------------------------------------------- repository (tables)
\* rows of sessions WHERE refresh_token = $1
GetSessionByTokenAny(S, refreshToken) == S
GetSessionByToken(S, refreshToken) == {s \in S : s.tok = refreshToken}

\* DELETE FROM sessions WHERE id = $1
DeleteSessionSkipped(S, id) == S
DeleteSessionOfOwner(S, id) == {s \in S : \A t \in S : t.id = id => s.user # t.user}
DeleteSession(S, id) == {s \in S : s.id # id}

\* DeleteSession's error: RowsAffected() == 0 is ErrSessionNotFound
DeleteSessionErrNil(S, id) == "nil"
DeleteSessionErr(S, id) ==
    IF \E s \in S : s.id = id THEN "nil" ELSE "ErrSessionNotFound"

\* DELETE FROM sessions WHERE user_id = $1
DeleteUserSessionsOfAll(S, userID) == {}
DeleteUserSessions(S, userID) == {s \in S : s.user # userID}

\* DeleteUserSessions' error: the number of rows is not looked at
DeleteUserSessionsErr(S, userID) == "nil"

\* INSERT INTO sessions: primary key id, foreign key user_id -> users(id)
CanCreateSessionNoOwner(S, U, session) == \A s \in S : s.id # session.id
CanCreateSession(S, U, session) ==
    /\ \E u \in U : u.id = session.user
    /\ \A s \in S : s.id # session.id

\* rows of users WHERE telegram_id = $1 / WHERE id = $1
GetByTelegramID(U, tg) == {u \in U : u.tg = tg}
GetByIDAny(U, id) == U
GetByID(U, id) == {u \in U : u.id = id}

\* INSERT INTO users: primary key id, telegram_id UNIQUE
CanCreate(U, user) == \A u \in U : u.id # user.id /\ u.tg # user.tg

\* UPDATE users SET display fields WHERE id = $6
UpdateInsertsRow(U, user) == U \cup {user}
UpdateKeepsOld(U, user) == U
UpdateAllColumns(U, user) == {IF u.id = user.id THEN user ELSE u : u \in U}
Update(U, user) ==
    {IF u.id = user.id THEN [u EXCEPT !.profile = user.profile] ELSE u : u \in U}

\* DELETE FROM users WHERE id = $1 (sessions.user_id ON DELETE CASCADE)
Delete(U, id) == {u \in U : u.id # id}

\* no Shutdown call has started and nothing was handed to Submit
PoolInit ==
    [sh |-> [c \in ShutCallers |-> [pc |-> "idle", wait |-> FALSE, early |-> FALSE]],
     nSub |-> 0, dropped |-> {}, ran |-> {}, recovered |-> {}, last |-> "none",
     panic |-> {}]

\* ----------------------------------------------------------------- Init
TypeOK ==
    /\ nUsers \in 0..MaxUsers
    /\ nTok \in 0..MaxTok
    /\ now \in 0..MaxTime
    /\ Len(tasks) <= QueueSize
    /\ sd \in {"running", "closed"}

Init ==
    /\ users = {}
    /\ sessions = {}
    /\ nUsers = 0
    /\ nTok = 0
    /\ toks = {}
    /\ now = 0
    /\ procs = [p \in Procs |-> Idle]
    /\ tasks = <<>>
    /\ wk = [w \in Workers |-> [st |-> "idle", task |-> NoTask]]
    /\ sd = "running"
    /\ pool = PoolInit
    /\ payloads = {1}
    /\ initDatas = {ValidInitData, TamperedInitData}
    /\ cfg = NoCfg
    /\ call = NoCall

\* A database that already holds rows when the service starts: one user, a
\* refresh token issued to it with its session row, and a session row that
\* stores under this user a token whose subject is another, since deleted,
\* user.  All but one of the MaxTok tokens of a behaviour were issued before
\* the start.
PreUser1 == [id |-> 101, tg |-> 1, profile |-> 1]
PreUser2 == [id |-> 102, tg |-> 2, profile |-> 1]
PreToken == generateRefreshToken(PreUser1.id, 100, 0)
PreToken2 == generateRefreshToken(PreUser2.id, 101, 0)
PreSession == NewSession(100, PreUser2.id, PreToken)
PreSession2 == NewSession(101, PreUser2.id, PreToken2)

InitAnyDB ==
    /\ users = {PreUser2}
    /\ sessions = {PreSession, PreSession2}
    /\ nUsers = 0
    /\ nTok = MaxTok - 1
    /\ toks = {PreToken, PreToken2}
    /\ now = 0
    /\ procs = [p \in Procs |-> Idle]
    /\ tasks = <<>>
    /\ wk = [w \in Workers |-> [st |-> "idle", task |-> NoTask]]
    /\ sd = "running"
    /\ pool = PoolInit
    /\ payloads = {1}
    /\ initDatas = {ValidInitData, TamperedInitData}
    /\ cfg = NoCfg
    /\ call = NoCall

\* ------------------------------------------------------------- helpers
Outcomes == {"ok", "fault"}   \* a storage or signing call returns, or fails

\* handlers that will still draw a token / create a user row
InFlightTok ==
    Cardinality({p \in Procs : procs[p].pc \in
        {"login_write", "login_issue", "refresh_user", "refresh_delete",
         "refresh_issue"}})
\* other identities whose first login is about to create a user row
InFlightCreate(tg) ==
    Cardinality({t \in (0..NumTg) \ {tg} :
        \E p \in Procs : /\ procs[p].pc = "login_write"
                          /\ procs[p].user = NoUser
                          /\ procs[p].tg = t})
TokBudget == nTok + InFlightTok < MaxTok
UserBudget(tg) == nUsers + InFlightCreate(tg) < MaxUsers

\* user ids an access token can carry: every user registered so far
UserIDs == (1..nUsers) \cup {u.id : u \in users}

\* handlers are interchangeable: a new request takes the lowest free one
CanStart(p) ==
    /\ procs[p].pc = "idle"
    /\ \A q \in Procs : q < p => procs[q].pc # "idle"

\* a call of operation op that has returned nil and whose response is still shown
Returned(q, op) ==
    procs[q].pc = "done" /\ procs[q].op = op /\ procs[q].res = "ok"

\* what has already returned about a token when a call presenting it starts
Pre(tok) ==
    (IF \E q \in Procs : Returned(q, "Refresh") /\ procs[q].tok = tok
     THEN {"consumed"} ELSE {})
    \cup (IF \E q \in Procs : Returned(q, "LogoutAll") /\ tok \in procs[q].cover
          THEN {"revoked"} ELSE {})

\* the handler returns err; why names the branch that produced it
Fail(rec, err, why) ==
    [rec EXCEPT !.pc = "done", !.res = err, !.cause = why, !.user = NoUser]

\* ---------------------------------------------------- WorkerPool.Submit
isShutDownNever == FALSE
isShutDown == sd # "running"

\* close(p.tasks) and close(p.shutdown) have happened
tasksClosed == sd \in {"tasksClosed", "closed"}
shutdownClosed == sd = "closed"
SubmitUnbounded == ~isShutDown
SubmitAccepts == ~isShutDown /\ Len(tasks) < QueueSize

\* ------------------------------------------- the handlers' error mapping
\* an error of the repository or of the token authority that the service
\* does not recognise: it is logged and models.ErrInternalServer is returned
InternalErrRaw(e) == e
InternalErr(e) == "ErrInternalServer"

\* RefreshTokens: ErrSessionNotFound from GetSessionByToken
SessionMissErrRaw == "ErrSessionNotFound"
SessionMissErr == "ErrInvalidToken"

\* RefreshTokens: session.UserID != userID is refused
OwnerOKUnchecked(session, userID) == TRUE
OwnerOK(session, userID) == session.user = userID

\* RefreshTokens / Logout: ErrSessionNotFound from DeleteSession is ignored
DeleteMissToleratedNot == FALSE
DeleteMissTolerated == TRUE

\* AuthWithTelegram / RefreshTokens: the value of Submit is discarded
IssueResultChecked(accepted) == IF accepted THEN "ok" ELSE "ErrInternalServer"
IssueResult(accepted) == "ok"

\* Logout: the token is looked up as it is, never validated
LogoutValidatesStrict(tok, t) == ValidateRefreshToken(tok, t)[1]
LogoutValidates(tok, t) == "nil"

\* the task body: bgCtx := context.Background()
TaskContextOfRequest(reqCtx) == reqCtx
TaskContext(reqCtx) == Background

\* the task body: an error of CreateSession is logged, nothing else
ResubmitOnError(q, task) == IF Len(q) < QueueSize THEN Append(q, task) ELSE q
LogCreateSessionError(q, task) == q

\* the request served by handler p is over: its context is cancelled
CancelContext(task, p) ==
    IF task.ctx = RequestContext(p)
    THEN [task EXCEPT !.ctx = [kind |-> "cancelled", of |-> p]]
    ELSE task

\* GenerateTokens, NewSession, Submit and the return of the token pair
Issue(p, userID) ==
    \E o \in Outcomes :
        IF o = "fault"
        THEN /\ procs' = [procs EXCEPT ![p] = Fail(@, InternalErr("signing failure"), "signing")]
             /\ UNCHANGED <<nTok, toks, tasks>>
        ELSE LET tok == generateRefreshToken(userID, nTok, now)
                 session == NewSession(nTok, userID, tok)
                 accepted == SubmitAccepts
                 r == IssueResult(accepted)
             IN /\ nTok' = nTok + 1
                /\ tasks' = IF accepted
                            THEN Append(tasks, [session |-> session,
                                                ctx |-> TaskContext(RequestContext(p))])
                            ELSE tasks
                /\ toks' = IF r = "ok" THEN toks \cup {tok} ELSE toks
                /\ procs' = [procs EXCEPT ![p] =
                       [Fail(@, r, IF r = "ok" THEN "none" ELSE "submit") EXCEPT
                           !.out = IF r = "ok" THEN tok ELSE NoTok,
                           !.sub = IF accepted THEN "accepted" ELSE "dropped"]]

\* ------------------------------------------- ServiceImpl.AuthWithTelegram
\* ValidateInitData, then GetByTelegramID
LoginLookup(p) ==
    /\ CanStart(p)
    /\ \E d \in initDatas, id \in TgIDs, profile \in payloads, o \in Outcomes :
        LET telegramUser == ValidateInitData(d, id, profile, now)
            tg == telegramUser[3]
            base == [Idle EXCEPT !.op = "Login", !.tg = tg,
                                 !.profile = telegramUser[4]]
            rows == GetByTelegramID(users, tg)
        IN IF telegramUser[1] # "nil"
           THEN procs' = [procs EXCEPT ![p] =
                    Fail([Idle EXCEPT !.op = "Login"], telegramUser[1],
                         telegramUser[2])]
           ELSE IF o = "fault"
           THEN procs' = [procs EXCEPT ![p] = Fail(base, InternalErr("storage failure"), "storage")]
           ELSE /\ TokBudget
                /\ IF rows = {}
                   THEN /\ UserBudget(tg)
                        /\ procs' = [procs EXCEPT ![p] = [base EXCEPT !.pc = "login_write"]]
                   ELSE \E u \in rows :
                            procs' = [procs EXCEPT ![p] =
                                [base EXCEPT !.pc = "login_write", !.user = u,
                                             !.uid = u.id]]
    /\ UNCHANGED <<users, sessions, nUsers, nTok, toks, now, tasks, wk, sd, pool, payloads, initDatas, cfg, call>>

\* userRepo.Create for a new identity, userRepo.Update for a known one
LoginWrite(p) ==
    /\ procs[p].pc = "login_write"
    /\ \E o \in Outcomes :
        IF o = "fault"
        THEN /\ procs' = [procs EXCEPT ![p] = Fail(@, InternalErr("storage failure"), "storage")]
             /\ UNCHANGED <<users, nUsers>>
        ELSE IF procs[p].user = NoUser
        THEN LET user == NewUser(nUsers, procs[p].tg, procs[p].profile)
             IN IF CanCreate(users, user)
                THEN /\ nUsers < MaxUsers
                     /\ users' = users \cup {user}
                     /\ nUsers' = nUsers + 1
                     /\ procs' = [procs EXCEPT ![p] =
                            [@ EXCEPT !.pc = "login_issue", !.user = user,
                                      !.uid = user.id]]
                ELSE /\ procs' = [procs EXCEPT ![p] =
                            Fail(@, InternalErr("unique violation"), "conflict")]
                     /\ UNCHANGED <<users, nUsers>>
        ELSE LET user == [procs[p].user EXCEPT !.profile = procs[p].profile]
             IN IF GetByID(users, user.id) # {}
                THEN /\ users' = Update(users, user)
                     /\ nUsers' = nUsers
                     /\ procs' = [procs EXCEPT ![p] =
                            [@ EXCEPT !.pc = "login_issue", !.user = user]]
                ELSE /\ procs' = [procs EXCEPT ![p] =
                            Fail(@, InternalErr("ErrUserNotFound"), "usergone")]
                     /\ UNCHANGED <<users, nUsers>>
    /\ UNCHANGED <<sessions, nTok, toks, now, tasks, wk, sd, pool, payloads, initDatas, cfg, call>>

LoginIssue(p) ==
    /\ procs[p].pc = "login_issue"
    /\ Issue(p, procs[p].user.id)
    /\ UNCHANGED <<users, sessions, nUsers, now, wk, sd, pool, payloads, initDatas, cfg, call>>

\* --------------------------------------------- ServiceImpl.RefreshTokens
\* ValidateRefreshToken, GetSessionByToken and the ownership check
RefreshLookup(p) ==
    /\ CanStart(p)
    /\ \E tok \in toks \cup {BadToken}, o \in Outcomes :
        LET v == ValidateRefreshToken(tok, now)
            rows == GetSessionByToken(sessions, tok)
            base == [Idle EXCEPT !.op = "Refresh", !.tok = tok, !.pre = Pre(tok),
                                 !.uid = v[2]]
        IN IF v[1] # "nil"
           THEN /\ o = "ok"
                /\ procs' = [procs EXCEPT ![p] = Fail(base, v[1], "validate")]
           ELSE IF o = "fault"
           THEN procs' = [procs EXCEPT ![p] = Fail(base, InternalErr("storage failure"), "storage")]
           ELSE IF rows = {}
           THEN procs' = [procs EXCEPT ![p] = Fail(base, SessionMissErr, "nosession")]
           ELSE \E s \in rows :
                   IF ~OwnerOK(s, v[2])
                   THEN procs' = [procs EXCEPT ![p] =
                            Fail([base EXCEPT !.sess = s], "ErrInvalidToken", "owner")]
                   ELSE /\ TokBudget
                        /\ procs' = [procs EXCEPT ![p] =
                               [base EXCEPT !.pc = "refresh_user", !.sess = s]]
    /\ UNCHANGED <<users, sessions, nUsers, nTok, toks, now, tasks, wk, sd, pool, payloads, initDatas, cfg, call>>

RefreshGetUser(p) ==
    /\ procs[p].pc = "refresh_user"
    /\ \E o \in Outcomes :
        LET rows == GetByID(users, procs[p].uid)
        IN IF o = "fault"
           THEN procs' = [procs EXCEPT ![p] = Fail(@, InternalErr("storage failure"), "storage")]
           ELSE IF rows = {}
           THEN procs' = [procs EXCEPT ![p] = Fail(@, "ErrInvalidToken", "usergone")]
           ELSE \E u \in rows :
                   procs' = [procs EXCEPT ![p] =
                       [@ EXCEPT !.pc = "refresh_delete", !.user = u]]
    /\ UNCHANGED <<users, sessions, nUsers, nTok, toks, now, tasks, wk, sd, pool, payloads, initDatas, cfg, call>>

RefreshDelete(p) ==
    /\ procs[p].pc = "refresh_delete"
    /\ \E o \in Outcomes :
        LET left == DeleteSession(sessions, procs[p].sess.id)
            affected == DeleteSessionErr(sessions, procs[p].sess.id) = "nil"
        IN IF o = "fault"
           THEN /\ procs' = [procs EXCEPT ![p] = Fail(@, InternalErr("storage failure"), "storage")]
                /\ UNCHANGED sessions
           ELSE /\ sessions' = left
                /\ IF affected \/ DeleteMissTolerated
                   THEN procs' = [procs EXCEPT ![p] =
                            [@ EXCEPT !.pc = "refresh_issue", !.removed = affected]]
                   ELSE procs' = [procs EXCEPT ![p] =
                            Fail(@, "ErrInternalServer", "notfound")]
    /\ UNCHANGED <<users, nUsers, nTok, toks, now, tasks, wk, sd, pool, payloads, initDatas, cfg, call>>

RefreshIssue(p) ==
    /\ procs[p].pc = "refresh_issue"
    /\ Issue(p, procs[p].user.id)
    /\ UNCHANGED <<users, sessions, nUsers, now, wk, sd, pool, payloads, initDatas, cfg, call>>

\* ---------------------------------------------------- ServiceImpl.Logout
LogoutLookup(p) ==
    /\ CanStart(p)
    /\ \E tok \in toks \cup {BadToken}, o \in Outcomes :
        LET rows == GetSessionByToken(sessions, tok)
            v == LogoutValidates(tok, now)
            base == [Idle EXCEPT !.op = "Logout", !.tok = tok, !.had = rows # {}]
        IN IF v # "nil"
           THEN /\ o = "ok"
                /\ procs' = [procs EXCEPT ![p] = Fail(base, v, "validate")]
           ELSE IF o = "fault"
           THEN procs' = [procs EXCEPT ![p] = Fail(base, InternalErr("storage failure"), "storage")]
           ELSE IF rows = {}
           THEN procs' = [procs EXCEPT ![p] = Fail(base, "ok", "nosession")]
           ELSE \E s \in rows :
                    procs' = [procs EXCEPT ![p] =
                        [base EXCEPT !.pc = "logout_delete", !.sess = s]]
    /\ UNCHANGED <<users, sessions, nUsers, nTok, toks, now, tasks, wk, sd, pool, payloads, initDatas, cfg, call>>

LogoutDelete(p) ==
    /\ procs[p].pc = "logout_delete"
    /\ \E o \in Outcomes :
        LET left == DeleteSession(sessions, procs[p].sess.id)
            affected == DeleteSessionErr(sessions, procs[p].sess.id) = "nil"
        IN IF o = "fault"
           THEN /\ procs' = [procs EXCEPT ![p] = Fail(@, InternalErr("storage failure"), "storage")]
                /\ UNCHANGED sessions
           ELSE /\ sessions' = left
                /\ IF affected \/ DeleteMissTolerated
                   THEN procs' = [procs EXCEPT ![p] =
                            [Fail(@, "ok", "none") EXCEPT !.removed = affected]]
                   ELSE procs' = [procs EXCEPT ![p] =
                            Fail(@, "ErrInternalServer", "notfound")]
    /\ UNCHANGED <<users, nUsers, nTok, toks, now, tasks, wk, sd, pool, payloads, initDatas, cfg, call>>

\* ------------------------------------------------- ServiceImpl.LogoutAll
LogoutAll(p) ==
    /\ CanStart(p)
    /\ \E userID \in UserIDs, o \in Outcomes :
        LET left == DeleteUserSessions(sessions, userID)
            base == [Idle EXCEPT !.op = "LogoutAll", !.uid = userID]
        IN IF o = "fault"
           THEN /\ procs' = [procs EXCEPT ![p] = Fail(base, InternalErr("storage failure"), "storage")]
                /\ UNCHANGED sessions
           ELSE /\ sessions' = left
                /\ procs' = [procs EXCEPT ![p] =
                       [Fail(base, "ok", "none") EXCEPT
                           !.removed = left # sessions,
                           !.cover = {t \in toks : t.uid = userID}]]
    /\ UNCHANGED <<users, nUsers, nTok, toks, now, tasks, wk, sd, pool, payloads, initDatas, cfg, call>>

\* ------------------------------------------------ ServiceImpl.DeleteUser
DeleteUserSessionsStep(p) ==
    /\ CanStart(p)
    /\ \E userID \in UserIDs, o \in Outcomes :
        LET left == DeleteUserSessions(sessions, userID)
            base == [Idle EXCEPT !.op = "DeleteUser", !.uid = userID]
        IN IF o = "fault"
           THEN /\ procs' = [procs EXCEPT ![p] = Fail(base, InternalErr("storage failure"), "storage")]
                /\ UNCHANGED sessions
           ELSE /\ sessions' = left
                /\ procs' = [procs EXCEPT ![p] =
                       [base EXCEPT !.pc = "deluser_delete", !.removed = left # sessions]]
    /\ UNCHANGED <<users, nUsers, nTok, toks, now, tasks, wk, sd, pool, payloads, initDatas, cfg, call>>

DeleteUserDelete(p) ==
    /\ procs[p].pc = "deluser_delete"
    /\ \E o \in Outcomes :
        IF o = "fault"
        THEN /\ procs' = [procs EXCEPT ![p] = Fail(@, InternalErr("storage failure"), "storage")]
             /\ UNCHANGED <<users, sessions>>
        ELSE IF GetByID(users, procs[p].uid) = {}
        THEN /\ procs' = [procs EXCEPT ![p] = Fail(@, "ErrUserNotFound", "nouser")]
             /\ UNCHANGED <<users, sessions>>
        ELSE /\ users' = Delete(users, procs[p].uid)
             /\ sessions' = DeleteUserSessions(sessions, procs[p].uid)
             /\ procs' = [procs EXCEPT ![p] = Fail(@, "ok", "none")]
    /\ UNCHANGED <<nUsers, nTok, toks, now, tasks, wk, sd, pool, payloads, initDatas, cfg, call>>

\* ------------------------------------------------ ServiceImpl.UpdateUser
\* the caller passes any user value: an id, a Telegram id and display fields
UpdateUser(p) ==
    /\ CanStart(p)
    /\ \E id \in UserIDs, tg \in 0..NumTg, profile \in payloads, o \in Outcomes :
        LET user == [id |-> id, tg |-> tg, profile |-> profile]
            base == [Idle EXCEPT !.op = "UpdateUser", !.uid = id, !.tg = tg,
                                 !.profile = profile]
        IN IF o = "fault"
           THEN /\ procs' = [procs EXCEPT ![p] = Fail(base, InternalErr("storage failure"), "storage")]
                /\ UNCHANGED users
           ELSE IF GetByID(users, id) = {}
           THEN /\ procs' = [procs EXCEPT ![p] = Fail(base, "ErrUserNotFound", "nouser")]
                /\ UNCHANGED users
           ELSE /\ users' = Update(users, user)
                /\ procs' = [procs EXCEPT ![p] = Fail(base, "ok", "none")]
    /\ UNCHANGED <<sessions, nUsers, nTok, toks, now, tasks, wk, sd, pool, payloads, initDatas, cfg, call>>

\* the response has been sent and the request's context is cancelled; the
\* handler serves the next request
Return(p) ==
    /\ procs[p].pc = "done"
    /\ procs' = [procs EXCEPT ![p] = Idle]
    /\ tasks' = [i \in 1..Len(tasks) |-> CancelContext(tasks[i], p)]
    /\ wk' = [w \in Workers |-> [wk[w] EXCEPT !.task = CancelContext(@, p)]]
    /\ UNCHANGED <<users, sessions, nUsers, nTok, toks, now, sd, pool, payloads, initDatas, cfg, call>>

\* what is left in the buffer of p.tasks after a receive took the oldest task
ReceivePeeks(q) == q
Receive(q) == Tail(q)

\* ---------------------------------------------------- WorkerPool.worker
WorkerTake(w) ==
    /\ wk[w].st = "idle"
    /\ tasks # <<>>
    /\ wk' = [wk EXCEPT ![w] = [st |-> "busy", task |-> Head(tasks)]]
    /\ tasks' = Receive(tasks)
    /\ UNCHANGED <<users, sessions, nUsers, nTok, toks, now, procs, sd, pool, payloads, initDatas, cfg, call>>

\* the task body: userRepo.CreateSession with the task's context
WorkerRun(w) ==
    /\ wk[w].st = "busy"
    /\ \E o \in Outcomes :
        LET task == wk[w].task
            stored == /\ o = "ok"
                      /\ task.ctx.kind # "cancelled"
                      /\ CanCreateSession(sessions, users, task.session)
        IN /\ sessions' = IF stored THEN sessions \cup {task.session} ELSE sessions
           /\ tasks' = IF stored THEN tasks ELSE LogCreateSessionError(tasks, task)
    /\ wk' = [wk EXCEPT ![w] = [st |-> "idle", task |-> NoTask]]
    /\ UNCHANGED <<users, nUsers, nTok, toks, now, procs, sd, pool, payloads, initDatas, cfg, call>>

\* the select returns: p.shutdown is closed, or p.tasks is closed and empty
WorkerExit(w) ==
    /\ wk[w].st = "idle"
    /\ \/ sd = "closed"
       \/ sd = "tasksClosed" /\ tasks = <<>>
    /\ wk' = [wk EXCEPT ![w] = [st |-> "exited", task |-> NoTask]]
    /\ UNCHANGED <<users, sessions, nUsers, nTok, toks, now, procs, tasks, sd, pool, payloads, initDatas, cfg, call>>

\* -------------------------------------------------- WorkerPool.Shutdown
\* Shutdown(false) as App.Run calls it: isShutDown is set and both channels
\* are closed; a second call returns at once
Shutdown ==
    /\ ~isShutDown
    /\ sd' = "closed"
    /\ UNCHANGED <<users, sessions, nUsers, nTok, toks, now, procs, tasks, wk, pool, payloads, initDatas, cfg, call>>

\* ----------------------------------------------------------------- time
Tick ==
    /\ now < MaxTime
    /\ now' = now + 1
    /\ UNCHANGED <<users, sessions, nUsers, nTok, toks, procs, tasks, wk, sd, pool, payloads, initDatas, cfg, call>>

Next ==
    \/ \E p \in Procs : LoginLookup(p)
    \/ \E p \in Procs : LoginWrite(p)
    \/ \E p \in Procs : LoginIssue(p)
    \/ \E p \in Procs : RefreshLookup(p)
    \/ \E p \in Procs : RefreshGetUser(p)
    \/ \E p \in Procs : RefreshDelete(p)
    \/ \E p \in Procs : RefreshIssue(p)
    \/ \E p \in Procs : LogoutLookup(p)
    \/ \E p \in Procs : LogoutDelete(p)
    \/ \E p \in Procs : LogoutAll(p)
    \/ \E p \in Procs : DeleteUserSessionsStep(p)
    \/ \E p \in Procs : DeleteUserDelete(p)
    \/ \E p \in Procs : Return(p)
    \/ \E w \in Workers : WorkerTake(w)
    \/ \E w \in Workers : WorkerRun(w)
    \/ \E w \in Workers : WorkerExit(w)
    \/ Shutdown
    \/ Tick

Spec == Init /\ [][Next]_vars

\* the same service started on a database that already holds rows
SpecAnyDB == InitAnyDB /\ [][Next]_vars

\* ------------------------------------------------ the user rows in focus
\* The service on a database that already holds one user.  Clients send every
\* display payload, UpdateUser is called as well, and all but two of the
\* MaxTok tokens of a behaviour were issued before the start.
InitUsers ==
    /\ users = {PreUser1}
    /\ sessions = {}
    /\ nUsers = 0
    /\ nTok = MaxTok - 2
    /\ toks = {}
    /\ now = 0
    /\ procs = [p \in Procs |-> Idle]
    /\ tasks = <<>>
    /\ wk = [w \in Workers |-> [st |-> "idle", task |-> NoTask]]
    /\ sd = "running"
    /\ pool = PoolInit
    /\ payloads = Profiles
    /\ initDatas = {ValidInitData, TamperedInitData}
    /\ cfg = NoCfg
    /\ call = NoCall

\* every operation of the service and the workers; the clock stands still and
\* the pool is not shut down
NextUsers ==
    \/ \E p \in Procs : LoginLookup(p)
    \/ \E p \in Procs : LoginWrite(p)
    \/ \E p \in Procs : LoginIssue(p)
    \/ \E p \in Procs : RefreshLookup(p)
    \/ \E p \in Procs : RefreshGetUser(p)
    \/ \E p \in Procs : RefreshDelete(p)
    \/ \E p \in Procs : RefreshIssue(p)
    \/ \E p \in Procs : LogoutLookup(p)
    \/ \E p \in Procs : LogoutDelete(p)
    \/ \E p \in Procs : LogoutAll(p)
    \/ \E p \in Procs : DeleteUserSessionsStep(p)
    \/ \E p \in Procs : DeleteUserDelete(p)
    \/ \E p \in Procs : UpdateUser(p)
    \/ \E p \in Procs : Return(p)
    \/ \E w \in Workers : WorkerTake(w)
    \/ \E w \in Workers : WorkerRun(w)

SpecUsers == InitUsers /\ [][NextUsers]_vars

\* ------------------------------------------------ the HTTP handlers
StatusOK == 200
StatusBadRequest == 400
StatusUnauthorized == 401
StatusInternalServerError == 500

\* UserHandler.AuthWithTelegram: the status chosen for the service's error
AuthWithTelegramStatus(err) ==
    IF err = "ok" THEN StatusOK
    ELSE IF err \in {"ErrInvalidInitData", "ErrInvalidSignature"} THEN StatusBadRequest
    ELSE IF err = "ErrExpiredToken" THEN StatusUnauthorized
    ELSE StatusInternalServerError

\* UserHandler.Logout: the status chosen for the service's error
LogoutStatusAlwaysOK(err) == StatusOK
LogoutStatus(err) == IF err = "ok" THEN StatusOK ELSE StatusInternalServerError

\* bodies a client posts: one that BodyParser refuses, one whose required
\* field is empty, one that carries the field
Bodies == {"unparsable", "empty", "filled"}

\* BodyParser and validator.Validate of the handlers, before the service is
\* called: the error the handler answers with, or nil
ParseAndValidate(body) ==
    IF body = "unparsable" THEN "ErrBadRequest"
    ELSE IF body = "empty" THEN "ErrValidation"
    ELSE "nil"

\* a handler answers a body it cannot use, without calling the service
HandlerReject(p) ==
    /\ CanStart(p)
    /\ \E op \in {"Login", "Logout"}, body \in Bodies :
        /\ ParseAndValidate(body) # "nil"
        /\ procs' = [procs EXCEPT ![p] =
               Fail([Idle EXCEPT !.op = op], ParseAndValidate(body), "request")]
    /\ UNCHANGED <<users, sessions, nUsers, nTok, toks, now, tasks, wk, sd, pool, payloads, initDatas, cfg, call>>

\* the status of the response handler p has written
Status(p) ==
    IF procs[p].cause = "request" THEN StatusBadRequest
    ELSE IF procs[p].op = "Login" THEN AuthWithTelegramStatus(procs[p].res)
    ELSE LogoutStatus(procs[p].res)

\* clients send init data of every shape
InitHTTP ==
    /\ users = {}
    /\ sessions = {}
    /\ nUsers = 0
    /\ nTok = MaxTok - 2
    /\ toks = {}
    /\ now = 0
    /\ procs = [p \in Procs |-> Idle]
    /\ tasks = <<>>
    /\ wk = [w \in Workers |-> [st |-> "idle", task |-> NoTask]]
    /\ sd = "running"
    /\ pool = PoolInit
    /\ payloads = {1}
    /\ initDatas = InitDatas
    /\ cfg = NoCfg
    /\ call = NoCall

\* the login and logout endpoints and the workers
NextHTTP ==
    \/ \E p \in Procs : HandlerReject(p)
    \/ \E p \in Procs : LoginLookup(p)
    \/ \E p \in Procs : LoginWrite(p)
    \/ \E p \in Procs : LoginIssue(p)
    \/ \E p \in Procs : LogoutLookup(p)
    \/ \E p \in Procs : LogoutDelete(p)
    \/ \E p \in Procs : Return(p)
    \/ \E w \in Workers : WorkerTake(w)
    \/ \E w \in Workers : WorkerRun(w)
    \/ Tick

SpecHTTP == InitHTTP /\ [][NextHTTP]_vars

\* ------------------------------------------------- the JWT authority
\* Tokens as jwt.Parse sees them: the algorithm of the header, the secret the
\* signature was made with, and the claims. Times are in seconds.
DefaultAccessTTL == 900       \* 15 * time.Minute
DefaultRefreshTTL == 604800   \* 7 * 24 * time.Hour
MantissaBits == 53            \* significand of a float64

Secrets == {"", "s1", "s2"}   \* values of JWT.AccessSecret / RefreshSecret
TTLs == {0, 1, 2}             \* values of JWT.AccessTTL / RefreshTTL
AuthUserIDs == {1, 2}         \* user ids tokens are generated for

\* non-negative integers as their binary digits, most significant first
Zeros(k) == [i \in 1..k |-> 0]
RECURSIVE Inc(_)
Inc(b) ==
    IF b = <<>> THEN <<1>>
    ELSE IF b[Len(b)] = 0 THEN SubSeq(b, 1, Len(b) - 1) \o <<1>>
    ELSE Inc(SubSeq(b, 1, Len(b) - 1)) \o <<0>>

\* Telegram ids that init data carries: 5, 2^53, 2^53 + 1, 2^53 + 2,
\* 2^53 + 3 and 2^62 + 1
TelegramIDs ==
    {<<1, 0, 1>>,
     <<1>> \o Zeros(MantissaBits),
     <<1>> \o Zeros(MantissaBits - 1) \o <<1>>,
     <<1>> \o Zeros(MantissaBits - 2) \o <<1, 0>>,
     <<1>> \o Zeros(MantissaBits - 2) \o <<1, 1>>,
     <<1>> \o Zeros(61) \o <<1>>}

\* a JSON number decoded into an interface{}: the nearest float64, ties to
\* even, written again as an integer
Float64(b) ==
    IF Len(b) <= MantissaBits THEN b
    ELSE LET head == SubSeq(b, 1, MantissaBits)
             rest == SubSeq(b, MantissaBits + 1, Len(b))
             more == \E i \in 2..Len(rest) : rest[i] = 1
             up == rest[1] = 1 /\ (more \/ head[MantissaBits] = 1)
         IN (IF up THEN Inc(head) ELSE head) \o Zeros(Len(rest))

\* a TTL of 0 is replaced by the default, any other is kept
OrDefaultAlways(ttl, default) == default
OrDefault(ttl, default) == IF ttl = 0 THEN default ELSE ttl

NoJWT == [alg |-> "none", key |-> "", claims |-> [type |-> "none"]]

\* token.SignedString(secret) of jwt.NewWithClaims(SigningMethodHS256, claims)
SignedString(claims, secret) == [alg |-> "HS256", key |-> secret, claims |-> claims]

generateAccessToken(c, userID, telegramID, t) ==
    SignedString([user_id |-> <<userID>>, telegram_id |-> <<telegramID>>,
                  exp |-> t + c.accessTTL, iat |-> t, jti |-> 0,
                  type |-> "access"],
                 c.accessSecret)

generateRefreshJWT(c, userID, n, t) ==
    SignedString([user_id |-> <<userID>>, telegram_id |-> <<>>,
                  exp |-> t + c.refreshTTL, iat |-> t, jti |-> NewJti(n),
                  type |-> "refresh"],
                 c.refreshSecret)

\* models.NewSession: ExpiresAt
SessionExpiresAt(t, ttl) == t + ttl

\* jwt.Parse with the handlers' key function: the signing method must be an
\* HMAC, the signature must verify under the secret, then exp is compared
\* with the clock
ParseExpFirst(tokenString, secret, t) ==
    IF ~(t < tokenString.claims.exp) THEN "ErrTokenExpired"
    ELSE IF tokenString.alg # "HS256" THEN "ErrTokenUnverifiable"
    ELSE IF tokenString.key # secret THEN "ErrTokenSignatureInvalid"
    ELSE "nil"
Parse(tokenString, secret, t) ==
    IF tokenString.alg # "HS256" THEN "ErrTokenUnverifiable"
    ELSE IF tokenString.key # secret THEN "ErrTokenSignatureInvalid"
    ELSE IF ~(t < tokenString.claims.exp) THEN "ErrTokenExpired"
    ELSE "nil"

\* TelegramAuth.ValidateAccessToken: <<err, Claims.UserID, Claims.TelegramID>>
ValidateAccessToken(c, tokenString, t) ==
    LET err == Parse(tokenString, c.accessSecret, t)
        claims == tokenString.claims
    IN IF err = "ErrTokenExpired" THEN <<"ErrExpiredToken", <<>>, <<>>>>
       ELSE IF err # "nil" THEN <<"ErrInvalidToken", <<>>, <<>>>>
       ELSE IF claims.user_id = <<>> THEN <<"ErrInvalidToken", <<>>, <<>>>>
       ELSE IF claims.telegram_id = <<>> THEN <<"ErrInvalidToken", <<>>, <<>>>>
       ELSE <<"nil", claims.user_id, <<Float64(claims.telegram_id[1])>>>>

\* TelegramAuth.ValidateRefreshToken on such a token: <<err, userID>>
ValidateRefreshJWT(c, tokenString, t) ==
    LET err == Parse(tokenString, c.refreshSecret, t)
        claims == tokenString.claims
    IN IF err = "ErrTokenExpired" THEN <<"ErrExpiredToken", <<>>>>
       ELSE IF err # "nil" THEN <<"ErrInvalidToken", <<>>>>
       ELSE IF claims.user_id = <<>> THEN <<"ErrInvalidToken", <<>>>>
       ELSE <<"nil", claims.user_id>>

\* token strings a client can present besides the ones it was given: the
\* same with another signature, another algorithm, an expiry in the past, or
\* without the claims the validators read
Forged(tokenString) ==
    {[tokenString EXCEPT !.key = k] : k \in Secrets \ {tokenString.key}}
      \cup {[tokenString EXCEPT !.alg = "RS256"],
            [tokenString EXCEPT !.claims.exp = 0],
            [tokenString EXCEPT !.claims.exp = 0, !.key = "forged"],
            [tokenString EXCEPT !.claims.user_id = <<>>],
            [tokenString EXCEPT !.claims.user_id = <<>>, !.claims.exp = 0]}

Presented == {call.access, call.refresh} \cup Forged(call.access) \cup Forged(call.refresh)

\* NewTelegramAuth: the TTL defaults are written into the configuration
NewTelegramAuth ==
    /\ ~cfg.started
    /\ cfg' = [cfg EXCEPT !.started = TRUE,
                          !.accessTTL = OrDefault(@, DefaultAccessTTL),
                          !.refreshTTL = OrDefault(@, DefaultRefreshTTL)]
    /\ UNCHANGED <<users, sessions, nUsers, nTok, toks, now, procs, tasks, wk, sd, pool, payloads, initDatas, call>>

\* GenerateTokens and the NewSession that follows it in AuthWithTelegram and
\* RefreshTokens
GenerateTokens ==
    /\ cfg.started
    /\ \E userID \in AuthUserIDs, telegramID \in TelegramIDs :
        call' = [op |-> "GenerateTokens", userID |-> userID,
                 telegramID |-> telegramID, at |-> now,
                 access |-> generateAccessToken(cfg, userID, telegramID, now),
                 refresh |-> generateRefreshJWT(cfg, userID, 0, now),
                 expiresAt |-> SessionExpiresAt(now, cfg.refreshTTL),
                 token |-> NoJWT, when |-> now, res |-> <<"none">>]
    /\ UNCHANGED <<users, sessions, nUsers, nTok, toks, now, procs, tasks, wk, sd, pool, payloads, initDatas, cfg>>

\* ValidateAccessToken as the middleware calls it with a bearer token
ValidateAccess ==
    /\ call.op # "none"
    /\ \E tokenString \in Presented :
        call' = [call EXCEPT !.op = "ValidateAccessToken", !.token = tokenString,
                             !.when = now,
                             !.res = ValidateAccessToken(cfg, tokenString, now)]
    /\ UNCHANGED <<users, sessions, nUsers, nTok, toks, now, procs, tasks, wk, sd, pool, payloads, initDatas, cfg>>

\* ValidateRefreshToken as RefreshTokens calls it
ValidateRefresh ==
    /\ call.op # "none"
    /\ \E tokenString \in Presented :
        call' = [call EXCEPT !.op = "ValidateRefreshToken", !.token = tokenString,
                             !.when = now,
                             !.res = ValidateRefreshJWT(cfg, tokenString, now)]
    /\ UNCHANGED <<users, sessions, nUsers, nTok, toks, now, procs, tasks, wk, sd, pool, payloads, initDatas, cfg>>

\* every configuration LoadConfig can return is accepted at start-up
InitAuth ==
    /\ users = {}
    /\ sessions = {}
    /\ nUsers = 0
    /\ nTok = 0
    /\ toks = {}
    /\ now = 0
    /\ procs = [p \in Procs |-> Idle]
    /\ tasks = <<>>
    /\ wk = [w \in Workers |-> [st |-> "idle", task |-> NoTask]]
    /\ sd = "running"
    /\ pool = PoolInit
    /\ payloads = {1}
    /\ initDatas = {ValidInitData}
    /\ cfg \in [started : {FALSE}, accessSecret : Secrets, refreshSecret : Secrets,
                accessTTL : TTLs, refreshTTL : TTLs]
    /\ call = NoCall

NextAuth ==
    \/ NewTelegramAuth
    \/ GenerateTokens
    \/ ValidateAccess
    \/ ValidateRefresh
    \/ Tick

SpecAuth == InitAuth /\ [][NextAuth]_vars

\* ------------------------------------------- the worker pool on its own
\* Callers hand tasks of any kind to Submit, some of which panic, and call
\* Shutdown with either argument, each statement of Shutdown being a step.

\* WorkerPool.Submit: the isShutDown test and the select with default are
\* one step, p.mu being held from the first to the last; a send on a closed
\* channel panics
PoolSubmit ==
    /\ pool.nSub < MaxSubmit
    /\ \E panics \in BOOLEAN :
        LET task == [id |-> pool.nSub + 1, panics |-> panics]
            accepted == SubmitAccepts
        IN /\ tasks' = IF accepted THEN Append(tasks, task) ELSE tasks
           /\ pool' = [pool EXCEPT !.nSub = @ + 1,
                                   !.dropped = IF accepted THEN @ ELSE @ \cup {task.id},
                                   !.last = accepted,
                                   !.panic = IF accepted /\ tasksClosed
                                             THEN @ \cup {"send on closed channel"}
                                             ELSE @]
    /\ UNCHANGED <<users, sessions, nUsers, nTok, toks, now, procs, wk, sd, payloads, initDatas, cfg, call>>

\* worker: the state of a worker after the deferred recover() has run
AfterPanicUnrecovered == "exited"
AfterPanic == "idle"

\* worker: task() inside the func with the deferred recover, then the loop
PoolRun(w) ==
    /\ wk[w].st = "busy"
    /\ LET task == wk[w].task
       IN /\ wk' = [wk EXCEPT ![w] =
                      [st |-> IF task.panics THEN AfterPanic ELSE "idle",
                       task |-> NoTask]]
          /\ pool' = [pool EXCEPT !.ran = @ \cup {task.id},
                                  !.recovered = IF task.panics THEN @ \cup {w} ELSE @]
    /\ UNCHANGED <<users, sessions, nUsers, nTok, toks, now, procs, tasks, sd, payloads, initDatas, cfg, call>>

\* Shutdown: under p.mu, return if isShutDown, else set it
ShutdownBegin(c) ==
    /\ pool.sh[c].pc = "idle"
    /\ \E wait \in BOOLEAN :
        IF isShutDown
        THEN /\ pool' = [pool EXCEPT !.sh[c] =
                            [pc |-> "returned", wait |-> wait, early |-> TRUE]]
             /\ UNCHANGED sd
        ELSE /\ pool' = [pool EXCEPT !.sh[c] =
                            [pc |-> "close_tasks", wait |-> wait, early |-> FALSE]]
             /\ sd' = "flagged"
    /\ UNCHANGED <<users, sessions, nUsers, nTok, toks, now, procs, tasks, wk, payloads, initDatas, cfg, call>>

\* Shutdown: close(p.tasks)
ShutdownCloseTasks(c) ==
    /\ pool.sh[c].pc = "close_tasks"
    /\ sd' = "tasksClosed"
    /\ pool' = [pool EXCEPT !.sh[c].pc = "close_shutdown",
                            !.panic = IF tasksClosed
                                      THEN @ \cup {"close of closed channel"}
                                      ELSE @]
    /\ UNCHANGED <<users, sessions, nUsers, nTok, toks, now, procs, tasks, wk, payloads, initDatas, cfg, call>>

\* Shutdown: close(p.shutdown), and the return when wait is false
ShutdownCloseSignal(c) ==
    /\ pool.sh[c].pc = "close_shutdown"
    /\ sd' = "closed"
    /\ pool' = [pool EXCEPT !.sh[c].pc = IF pool.sh[c].wait THEN "waiting" ELSE "returned",
                            !.panic = IF shutdownClosed
                                      THEN @ \cup {"close of closed channel"}
                                      ELSE @]
    /\ UNCHANGED <<users, sessions, nUsers, nTok, toks, now, procs, tasks, wk, payloads, initDatas, cfg, call>>

\* Shutdown: p.wg.Wait() returns once every worker has called wg.Done
ShutdownWait(c) ==
    /\ pool.sh[c].pc = "waiting"
    /\ \A w \in Workers : wk[w].st = "exited"
    /\ pool' = [pool EXCEPT !.sh[c].pc = "returned"]
    /\ UNCHANGED <<users, sessions, nUsers, nTok, toks, now, procs, tasks, wk, sd, payloads, initDatas, cfg, call>>

NextPool ==
    \/ PoolSubmit
    \/ \E w \in Workers : WorkerTake(w)
    \/ \E w \in Workers : PoolRun(w)
    \/ \E w \in Workers : WorkerExit(w)
    \/ \E c \in ShutCallers : ShutdownBegin(c)
    \/ \E c \in ShutCallers : ShutdownCloseTasks(c)
    \/ \E c \in ShutCallers : ShutdownCloseSignal(c)
    \/ \E c \in ShutCallers : ShutdownWait(c)

SpecPool == Init /\ [][NextPool]_vars

\* the pool with the Go scheduler running every worker that can proceed, and
\* every task returning or panicking
SpecPoolFair ==
    /\ Init
    /\ [][NextPool]_vars
    /\ \A w \in Workers : WF_vars(WorkerTake(w)) /\ WF_vars(PoolRun(w))

\* ------------------------------------------------------------ properties
\* a call in which no storage statement and no token signing failed
NoFault(p) == procs[p].cause \notin {"storage", "signing"}

\* C1 as worded: once RefreshTokens(r) has returned nil, a RefreshTokens(r)
\* call that starts afterwards fails with ErrInvalidToken.
C1_LaterRefreshIsInvalidToken ==
    \A p \in Procs :
        procs[p].op = "Refresh" /\ "consumed" \in procs[p].pre /\ NoFault(p)
            => procs[p].res = "ErrInvalidToken"

\* C1, amended: once RefreshTokens(r) has returned nil no session row stores r,
\* and a RefreshTokens(r) call that starts afterwards never succeeds: it fails
\* with ErrInvalidToken while r is unexpired and with ErrExpiredToken once r
\* has expired.
C1_SingleUse ==
    /\ \A q \in Procs :
          Returned(q, "Refresh") => GetSessionByToken(sessions, procs[q].tok) = {}
    /\ \A p \in Procs :
          procs[p].op = "Refresh" /\ "consumed" \in procs[p].pre /\ NoFault(p)
              => /\ procs[p].pc = "done"
                 /\ procs[p].out = NoTok
                 /\ \/ procs[p].res = "ErrInvalidToken" /\ procs[p].cause = "nosession"
                    \/ /\ procs[p].res = "ErrExpiredToken"
                       /\ procs[p].cause = "validate"
                       /\ now >= procs[p].tok.iat + RefreshTTL

\* a second RefreshTokens(r) is refused although the replacement session of
\* the first one was dropped by the pool
C1_Witness ==
    \E p, q \in Procs :
        /\ p # q
        /\ Returned(q, "Refresh") /\ procs[q].sub = "dropped"
        /\ procs[p].op = "Refresh" /\ procs[p].tok = procs[q].tok
        /\ "consumed" \in procs[p].pre
        /\ procs[p].res = "ErrInvalidToken"

\* C2 as worded: RefreshTokens(refresh1) called after the login that returned
\* refresh1 succeeds (refresh1 is unexpired and no storage statement fails).
C2_RefreshAfterLoginSucceeds ==
    \A p, q \in Procs :
        /\ Returned(q, "Login")
        /\ procs[p].op = "Refresh" /\ procs[p].pc = "done"
        /\ procs[p].tok = procs[q].out
        /\ NoFault(p) /\ procs[p].cause # "validate"
        => procs[p].res = "ok"

\* C2, amended: RefreshTokens(t) succeeds exactly when the session row of t is
\* found at lookup time (the background CreateSession has completed and no
\* refresh has consumed t) and the user still exists; it then returns a token
\* different from t.  While the row is not there the call fails with
\* ErrInvalidToken.
C2_RefreshNeedsStoredSession ==
    \A p \in Procs :
        procs[p].op = "Refresh" =>
            /\ procs[p].res = "ok" =>
                  /\ procs[p].sess # NoSess /\ procs[p].sess.tok = procs[p].tok
                  /\ "consumed" \notin procs[p].pre
                  /\ procs[p].out \notin {NoTok, procs[p].tok}
            /\ procs[p].cause = "nosession" => procs[p].res = "ErrInvalidToken"
            /\ ( /\ procs[p].pc = "done"
                 /\ procs[p].sess # NoSess
                 /\ OwnerOK(procs[p].sess, procs[p].uid)
                 /\ procs[p].cause \notin {"storage", "signing", "usergone"} )
               => procs[p].res = "ok"

\* refresh1 was exchanged for refresh2 and refresh2, once stored, for a third
\* token
C2_Witness ==
    \E p, q \in Procs :
        /\ p # q
        /\ Returned(q, "Refresh") /\ Returned(p, "Refresh")
        /\ procs[p].tok = procs[q].out

\* C3 as worded: after LogoutAll(U) has returned nil, RefreshTokens with a
\* refresh token issued to U before that never succeeds.
C3_RevokedTokenNeverRefreshes ==
    \A p \in Procs :
        procs[p].op = "Refresh" /\ "revoked" \in procs[p].pre /\ procs[p].pc = "done"
            => procs[p].res # "ok"

\* C4 as worded: once Logout(r) has returned nil no session row stores r.
C4_LoggedOutTokenHasNoRow ==
    \A q \in Procs :
        Returned(q, "Logout") => GetSessionByToken(sessions, procs[q].tok) = {}

\* the first step of a Logout call for a token that no session row stores
\* reads the tables and writes nothing
C5_Step ==
    \A p \in Procs :
        /\ procs[p].pc = "idle" /\ procs'[p].op = "Logout"
        /\ GetSessionByToken(sessions, procs'[p].tok) = {}
        => /\ ~procs'[p].had
           /\ procs'[p].pc = "done"
           /\ UNCHANGED <<users, sessions, tasks, nTok>>

\* C5: Logout(s) for a string s that no session row stores (never issued,
\* already logged out, already rotated, malformed or expired) returns nil,
\* leaves both tables unchanged, and validates neither signature nor expiry.
C5_LogoutWithoutRow ==
    /\ [][C5_Step]_vars
    /\ [](\A p \in Procs :
            procs[p].op = "Logout" /\ ~procs[p].had /\ NoFault(p)
                => /\ procs[p].pc = "done"
                   /\ procs[p].res = "ok"
                   /\ ~procs[p].removed)

\* Logout of a string that is no token at all has returned nil while other
\* sessions are stored
C5_Witness ==
    \E p \in Procs :
        /\ procs[p].op = "Logout" /\ procs[p].tok = BadToken
        /\ ~procs[p].had /\ procs[p].res = "ok"
        /\ sessions # {}

\* C6: in every state reached by Login, Refresh, Logout, LogoutAll, DeleteUser
\* and the background tasks, at most one session row stores any given
\* refresh-token value.
C6_OneRowPerToken ==
    \A s, t \in sessions : s.tok = t.tok => s = t

\* two session rows are stored at once
C6_Witness == Cardinality(sessions) >= 2

\* the first step of a RefreshTokens call whose token passed validation
C7_Step ==
    \A p \in Procs :
        /\ procs[p].pc = "idle" /\ procs'[p].op = "Refresh"
        /\ procs'[p].cause \notin {"validate", "storage"}
        => IF GetSessionByToken(sessions, procs'[p].tok) = {}
           THEN /\ procs'[p].pc = "done"
                /\ procs'[p].res = "ErrInvalidToken"
                /\ procs'[p].out = NoTok
           ELSE procs'[p].sess \in GetSessionByToken(sessions, procs'[p].tok)

\* C7: RefreshTokens with a token that passes validation but has no session
\* row at lookup time returns ErrInvalidToken, never ErrSessionNotFound or
\* ErrInternalServer; a refresh succeeds only if the row existed at lookup.
C7_MissingRowIsInvalidToken ==
    /\ [][C7_Step]_vars
    /\ [](\A p \in Procs :
            procs[p].op = "Refresh" /\ procs[p].res = "ok"
                => procs[p].sess # NoSess /\ procs[p].sess.tok = procs[p].tok)

\* an issued, unexpired token without a row has been refused
C7_Witness ==
    \E p \in Procs :
        /\ procs[p].op = "Refresh" /\ procs[p].tok \in toks
        /\ procs[p].cause = "nosession" /\ procs[p].res = "ErrInvalidToken"

\* the first step of a RefreshTokens call that finds a row of another user
C8_Step ==
    \A p \in Procs :
        /\ procs[p].pc = "idle" /\ procs'[p].op = "Refresh"
        /\ procs'[p].sess # NoSess
        /\ procs'[p].sess.user # procs'[p].uid
        => /\ procs'[p].pc = "done"
           /\ procs'[p].res = "ErrInvalidToken"
           /\ UNCHANGED <<users, sessions, tasks, nTok, toks>>

\* C8: when the session row found for the token belongs to a user other than
\* the token's subject, RefreshTokens returns ErrInvalidToken, does not delete
\* the row and submits no background task.
C8_OwnerMismatch ==
    /\ [][C8_Step]_vars
    /\ [](\A p \in Procs :
            /\ procs[p].op = "Refresh" /\ procs[p].sess # NoSess
            /\ procs[p].sess.user # procs[p].uid
            => /\ procs[p].pc = "done"
               /\ procs[p].res = "ErrInvalidToken"
               /\ procs[p].out = NoTok
               /\ ~procs[p].removed
               /\ procs[p].sub = "none")

\* the row stored under another user was found, refused and is still there
C8_Witness ==
    \E p \in Procs :
        /\ procs[p].op = "Refresh" /\ procs[p].cause = "owner"
        /\ procs[p].sess = PreSession /\ procs[p].uid = PreUser1.id
        /\ PreSession \in sessions

\* the last step of AuthWithTelegram, and what follows the return
C9_Step ==
    \A p \in Procs :
        /\ ( /\ procs[p].pc = "login_issue" /\ procs'[p] # procs[p]
             /\ procs'[p].cause # "signing"
             => /\ procs'[p].pc = "done"
                /\ procs'[p].res = "ok"
                /\ procs'[p].out # NoTok
                /\ procs'[p].out \in toks'
                /\ procs'[p].sub \in {"accepted", "dropped"} )
        /\ ( Returned(p, "Login")
             => procs'[p] = procs[p] \/ procs'[p] = Idle )

\* C9: once credential verification, the user create-or-update and token
\* signing have succeeded, AuthWithTelegram returns the tokens with a nil
\* error whether Submit accepted the persistence task or dropped it, and
\* whatever the background CreateSession does later.
C9_LoginIgnoresPersistence == [][C9_Step]_vars

\* a login has returned tokens although its persistence task was dropped
C9_Witness ==
    \E p \in Procs : Returned(p, "Login") /\ procs[p].sub = "dropped"

\* C10: two concurrent RefreshTokens calls that both found the row of one
\* token can both succeed; at most one DeleteSession removes the row (exactly
\* one when no third call runs), the miss of the other is tolerated and never
\* becomes ErrInternalServer, and the row is absent once both have returned.
C10_ConcurrentRefresh ==
    \A p, q \in Procs :
        /\ p # q
        /\ procs[p].op = "Refresh" /\ procs[q].op = "Refresh"
        /\ procs[p].sess # NoSess /\ procs[p].sess = procs[q].sess
        => /\ ~(procs[p].removed /\ procs[q].removed)
           /\ procs[p].res = "ErrInternalServer"
                  => procs[p].cause \in {"storage", "signing"}
           /\ Returned(p, "Refresh") /\ Returned(q, "Refresh")
                  => /\ procs[p].sess \notin sessions
                     /\ Procs = {p, q} => procs[p].removed \/ procs[q].removed

\* both calls have returned nil; one removed the row, the other found it gone
C10_Witness ==
    \E p, q \in Procs :
        /\ p # q
        /\ Returned(p, "Refresh") /\ Returned(q, "Refresh")
        /\ procs[p].sess # NoSess /\ procs[p].sess = procs[q].sess
        /\ procs[p].removed /\ ~procs[q].removed

\* ids of the tasks that sit in the queue or in a worker
Pending ==
    {tasks[i].id : i \in 1..Len(tasks)}
        \cup {wk[w].task.id : w \in {v \in Workers : wk[v].st = "busy"}}

\* C11 as worded: Submit returns false and drops the task when the queue holds
\* QueueSize tasks, and otherwise enqueues it and returns true.
C11_SubmitFailsOnlyWhenFull ==
    [][pool'.nSub # pool.nSub => pool'.last = (Len(tasks) < QueueSize)]_vars

\* what one Submit call does
C11_Step ==
    pool'.nSub # pool.nSub =>
        IF Len(tasks) < QueueSize /\ ~isShutDown
        THEN /\ pool'.last = TRUE
             /\ Len(tasks') = Len(tasks) + 1
             /\ tasks'[Len(tasks')].id = pool'.nSub
             /\ pool'.dropped = pool.dropped
        ELSE /\ pool'.last = FALSE
             /\ tasks' = tasks
             /\ pool'.nSub \in pool'.dropped

\* C11, amended: Submit never blocks waiting for queue space: when the queue
\* already holds queueSize tasks, or Shutdown has been called, it returns false
\* and the submitted task is dropped and never executed; otherwise it enqueues
\* and returns true; the queue never holds more than queueSize tasks.
C11_SubmitNeverBlocks ==
    /\ [][C11_Step]_vars
    /\ [](/\ Len(tasks) <= QueueSize
          /\ pool.dropped \cap (pool.ran \cup Pending) = {}
          /\ pool.nSub < MaxSubmit => ENABLED PoolSubmit)

\* a task was dropped by the running pool because the queue was full, and
\* an accepted task has been executed
C11_Witness ==
    /\ sd = "running" /\ pool.dropped # {} /\ pool.ran # {}
    /\ pool.last = FALSE /\ Len(tasks) = QueueSize

\* C12: a task that panics does not terminate its worker: after the recover
\* the same worker takes further tasks, and the number of live workers stays
\* at workersCount until Shutdown, whatever tasks panic.
C12_PanicKeepsWorker ==
    /\ [][\A w \in Workers :
            wk[w].st = "busy" /\ wk'[w] # wk[w] => wk'[w].st = "idle"]_vars
    /\ [](sd = "running" =>
            Cardinality({w \in Workers : wk[w].st # "exited"}) = WorkersCount)

\* a worker that recovered a panic is executing another task
C12_Witness ==
    \E w \in pool.recovered : wk[w].st = "busy" /\ sd = "running"

\* C13 as worded: a Shutdown(wait=true) call returns only after every worker
\* goroutine has exited.
C13_WaitingShutdownOutlastsWorkers ==
    \A c \in ShutCallers :
        pool.sh[c].pc = "returned" /\ pool.sh[c].wait
            => \A w \in Workers : wk[w].st = "exited"

\* refresh tokens whose persistence task is queued or being executed
Attempts ==
    [i \in 1..Len(tasks) |-> tasks[i].session.tok]
        \o [i \in 1..Cardinality({w \in Workers : wk[w].st = "busy"}) |->
               wk[CHOOSE w \in Workers :
                      /\ wk[w].st = "busy"
                      /\ Cardinality({v \in Workers : wk[v].st = "busy" /\ v < w}) = i - 1
                  ].task.session.tok]

\* how persistence tasks come and go in one step
C14_Step ==
    /\ \A i \in 1..Len(tasks') :
          \/ \E j \in 1..Len(tasks) : tasks[j] = tasks'[i]
          \/ /\ i = Len(tasks')
             /\ tasks'[i].session.tok \notin toks
             /\ tasks'[i].session.tok \in toks'
    /\ \A w \in Workers :
          wk'[w].st = "busy" /\ wk[w].st # "busy"
              => tasks # <<>> /\ wk'[w].task = Head(tasks) /\ tasks' = Tail(tasks)
    /\ \A p \in Procs :
          procs[p].pc \in {"login_issue", "refresh_issue"} /\ procs'[p].res = "ok"
              => /\ procs'[p].sub \in {"accepted", "dropped"}
                 /\ IF procs'[p].sub = "accepted"
                    THEN /\ Len(tasks') = Len(tasks) + 1
                         /\ tasks'[Len(tasks')].session.tok = procs'[p].out
                    ELSE tasks' = tasks
    /\ \A s \in sessions' \ sessions :
          \E w \in Workers :
              wk[w].st = "busy" /\ wk[w].task.session = s /\ wk'[w].st = "idle"

\* C14: session persistence is attempted at most once per issued refresh
\* token: each successful Login or Refresh calls Submit exactly once for the
\* new session; a task that was dropped or whose CreateSession failed is never
\* submitted or executed again, so CreateSession runs at most once per token.
C14_PersistedAtMostOnce ==
    /\ [][C14_Step]_vars
    /\ [](/\ \A i, j \in 1..Len(Attempts) : Attempts[i] = Attempts[j] => i = j
          /\ \A i \in 1..Len(Attempts) :
                /\ Attempts[i] \in toks
                /\ GetSessionByToken(sessions, Attempts[i]) = {})

\* a login returned a token whose task was accepted; the task has been
\* executed without storing a row, and nothing is queued or running for it
C14_Witness ==
    \E p \in Procs :
        /\ Returned(p, "Login") /\ procs[p].sub = "accepted"
        /\ Attempts = <<>> /\ sessions = {}
        /\ \A q \in Procs : q # p => procs[q].pc = "idle" /\ procs[q].op = "none"

\* C15: the persistence task is decoupled from the request that submitted
\* it: after the request has completed and its context is cancelled, the task
\* still calls CreateSession with an uncancelled context, and whether the row
\* can be stored depends on the tables only.
C15_TaskOutlivesRequest ==
    /\ \A i \in 1..Len(tasks) : tasks[i].ctx = Background
    /\ \A w \in Workers :
          wk[w].st = "busy" =>
              /\ wk[w].task.ctx = Background
              /\ CanCreateSession(sessions, users, wk[w].task.session)
                    => ENABLED (WorkerRun(w)
                                /\ sessions' = sessions \cup {wk[w].task.session})

\* a worker is executing the task of a request that has already completed,
\* and the row can still be stored
C15_Witness ==
    \E w \in Workers :
        /\ wk[w].st = "busy"
        /\ CanCreateSession(sessions, users, wk[w].task.session)
        /\ \A p \in Procs : procs[p].pc = "idle"

\* what the create-or-update step of one login does to table users
C16_Step ==
    \A p \in Procs :
        procs[p].pc = "login_write" /\ procs'[p].pc = "login_issue" =>
            IF procs[p].user = NoUser
            THEN /\ GetByTelegramID(users, procs[p].tg) = {}
                 /\ Cardinality(users') = Cardinality(users) + 1
                 /\ users \subseteq users'
                 /\ \A u \in users' \ users : u.tg = procs[p].tg
            ELSE /\ Cardinality(users') = Cardinality(users)
                 /\ {u.id : u \in users'} = {u.id : u \in users}
                 /\ \A u \in GetByTelegramID(users', procs[p].tg) :
                       u.id = procs[p].user.id

\* C16: a login with an external identity that has no user creates exactly
\* one user row; a later login with the same identity and changed display
\* fields updates that same row (same internal id) and creates no second row;
\* in every state, also under concurrent logins, there is at most one user row
\* per external identifier.
C16_OneUserPerIdentity ==
    /\ [][C16_Step]_vars
    /\ [](\A u, v \in users : u.tg = v.tg \/ u.id = v.id => u = v)

\* two logins of a new identity ran concurrently: one created the row, the
\* other was refused by the database and no second row exists
C16_Witness ==
    \E p, q \in Procs :
        /\ p # q
        /\ procs[p].op = "Login" /\ procs[p].cause = "conflict"
        /\ procs[q].op = "Login" /\ procs[q].user # NoUser
        /\ procs[q].user.id # PreUser1.id
        /\ users = {procs[q].user}

\* C17: after the update of a login for an existing user, the stored display
\* fields are those of that login's external identity (complete overwrite, no
\* merge); when several logins of one user complete, the stored values are
\* those of the login whose Update was applied last.
C17_LastLoginWins ==
    [][\A p \in Procs :
          /\ procs[p].op = "Login" /\ procs[p].pc = "login_write"
          /\ procs[p].user # NoUser /\ procs'[p].pc = "login_issue"
          => /\ [id |-> procs[p].user.id, tg |-> procs[p].tg,
                 profile |-> procs[p].profile] \in users'
             /\ \A u \in users' : u.id # procs[p].user.id => u \in users]_vars

\* two logins of the same user with different display fields have both
\* applied their Update; the row holds the fields of one of them
C17_Witness ==
    \E p, q \in Procs :
        /\ p # q
        /\ procs[p].pc = "login_issue" /\ procs[q].pc = "login_issue"
        /\ procs[p].user.id = procs[q].user.id
        /\ procs[p].user.profile # procs[q].user.profile
        /\ procs[q].user \in users

\* C18: the internal identifier and the Telegram identifier of a user row
\* never change after creation: no step of Login, Refresh, UpdateUser, Logout
\* or LogoutAll modifies either field of an existing row.
C18_IdentifiersImmutable ==
    [][\A u \in users : \A v \in users' :
          (v.id = u.id => v.tg = u.tg) /\ (v.tg = u.tg => v.id = u.id)]_vars

\* UpdateUser was given a user value with another Telegram id and returned
\* nil; the row still carries its own
C18_Witness ==
    \E p \in Procs :
        /\ Returned(p, "UpdateUser")
        /\ \E u \in users : u.id = procs[p].uid /\ u.tg # procs[p].tg

\* C19: every session row's user_id is the id of a row of users; once
\* DeleteUser(U) has returned nil there is no session row of U, and because a
\* deleted id never comes back into users there is none in any later state
\* either, whatever CreateSession tasks for U were still pending.
C19_SessionsHaveOwners ==
    /\ [](\A s \in sessions : \E u \in users : u.id = s.user)
    /\ [](\A p \in Procs :
            Returned(p, "DeleteUser")
                => /\ GetByID(users, procs[p].uid) = {}
                   /\ \A s \in sessions : s.user # procs[p].uid)
    /\ [][\A id \in UserIDs :
            GetByID(users, id) = {} => GetByID(users', id) = {}]_vars

\* DeleteUser has returned nil while a worker holds a CreateSession task for
\* the deleted user and is about to run it
C19_Witness ==
    \E p \in Procs :
        /\ Returned(p, "DeleteUser")
        /\ procs[p].removed
        /\ \E w \in Workers :
              /\ wk[w].st = "busy"
              /\ wk[w].task.session.user = procs[p].uid
              /\ wk[w].task.ctx = Background
              /\ ENABLED WorkerRun(w)

\* C20: the step in which LogoutAll(U) returns nil removes exactly the session
\* rows owned by U at that moment: none of U's rows is left, every row of
\* another user is still there, no row is added and the users table is
\* untouched; unless the storage fails the call returns nil, whether or not U
\* had any session row.
C20_LogoutAllFrame ==
    [][\A p \in Procs :
          (procs'[p] # procs[p] /\ procs'[p].op = "LogoutAll")
              => /\ procs'[p].pc = "done"
                 /\ procs'[p].cause # "storage" => procs'[p].res = "ok"
                 /\ procs'[p].res = "ok"
                        => /\ \A s \in sessions' : s.user # procs'[p].uid
                           /\ \A s \in sessions :
                                 s.user # procs'[p].uid => s \in sessions'
                           /\ sessions' \subseteq sessions
                           /\ users' = users
                 /\ procs'[p].res # "ok" => sessions' = sessions /\ users' = users]_vars

\* one LogoutAll removed the rows of its user and left a row of another user
\* in the table, and another LogoutAll returned nil for a user who had no row
C20_Witness ==
    \E p, q \in Procs :
        /\ Returned(p, "LogoutAll") /\ procs[p].removed
        /\ \E s \in sessions : s.user # procs[p].uid
        /\ Returned(q, "LogoutAll") /\ ~procs[q].removed

\* errors of the init data library and of the handler's own decoding
InitDataCauses ==
    {"ErrUnexpectedFormat", "ErrSignMissing", "ErrExpired", "ErrSignInvalid",
     "ErrParse", "ErrNoUser"}

\* C24: every failing ValidateInitData call returns ErrInvalidInitData,
\* whatever made it fail: for every shape of init data at every time the
\* result is nil or that one value, and a login that ended in the validation
\* carries that value whether the cause was the format, the hash, the age of
\* a correctly signed payload or the user field.
C24_SingleInitDataError ==
    /\ \A d \in initDatas, id \in TgIDs, profile \in payloads :
          ValidateInitData(d, id, profile, now)[1] \in {"nil", "ErrInvalidInitData"}
    /\ \A p \in Procs :
          (procs[p].pc = "done" /\ procs[p].op = "Login"
              /\ procs[p].cause \in InitDataCauses)
            => procs[p].res = "ErrInvalidInitData"

\* two logins have failed in the validation, one for a stale payload with a
\* valid hash and one for a wrong hash, and show the same error
C24_Witness ==
    \E p, q \in Procs :
        /\ procs[p].pc = "done" /\ procs[p].op = "Login"
        /\ procs[p].cause = "ErrExpired"
        /\ procs[q].pc = "done" /\ procs[q].op = "Login"
        /\ procs[q].cause = "ErrSignInvalid"
        /\ procs[p].res = procs[q].res

\* C25: init data without a user field never passes ValidateInitData: no
\* login goes on to the users table with the zero Telegram id, and no user
\* row carries it.
C25_NoUserNoLogin ==
    /\ \A p \in Procs :
          procs[p].pc \in {"login_write", "login_issue"} => procs[p].tg # 0
    /\ \A u \in users : u.tg # 0

\* C28: the logout endpoint answers 200 to every request whose body carries
\* a refresh token, whatever the lookup and the deletion did.
C28_LogoutAlwaysSucceeds ==
    \A p \in Procs :
        (procs[p].pc = "done" /\ procs[p].op = "Logout"
            /\ procs[p].cause # "request")
          => Status(p) = StatusOK

\* C28 as amended: the logout endpoint answers 200 to every request whose
\* body carries a refresh token, whether or not a session row stores it,
\* unless a statement of the store fails; then it answers 500.
C28_LogoutSucceedsUnlessStoreFails ==
    \A p \in Procs :
        (procs[p].pc = "done" /\ procs[p].op = "Logout"
            /\ procs[p].cause # "request")
          => /\ NoFault(p) => Status(p) = StatusOK
             /\ ~NoFault(p) => Status(p) = StatusInternalServerError

\* a logout that found no session row and one that deleted its row have both
\* been answered
C28_Witness ==
    \E p, q \in Procs :
        /\ Returned(p, "Logout") /\ ~procs[p].had /\ procs[p].tok = BadToken
        /\ Returned(q, "Logout") /\ procs[q].had /\ procs[q].removed
        /\ Status(p) = StatusOK /\ Status(q) = StatusOK

\* C29: the login endpoint answers 200 with the tokens on success, 400 when
\* the init data is malformed or wrongly signed, and 401 when it is older
\* than the maximum age.
C29_LoginStatuses ==
    \A p \in Procs :
        (procs[p].pc = "done" /\ procs[p].op = "Login")
          => /\ procs[p].res = "ok"
                  => Status(p) = StatusOK /\ procs[p].out # NoTok
             /\ procs[p].cause \in {"ErrUnexpectedFormat", "ErrSignMissing",
                                    "ErrSignInvalid", "ErrParse"}
                  => Status(p) = StatusBadRequest
             /\ procs[p].cause = "ErrExpired" => Status(p) = StatusUnauthorized

\* C26: AuthWithTelegram, RefreshTokens, Logout and LogoutAll return nil or
\* one of ErrInvalidInitData, ErrInvalidToken, ErrExpiredToken and
\* ErrInternalServer, never ErrSessionNotFound, ErrUserNotFound or an error
\* of the store itself; a call that met a failing storage statement, a
\* refused insert or a failing signature returns ErrInternalServer.
C26_ErrorValues ==
    \A p \in Procs :
        (procs[p].pc = "done"
            /\ procs[p].op \in {"Login", "Refresh", "Logout", "LogoutAll"})
          => /\ procs[p].res \in {"ok", "ErrInvalidInitData", "ErrInvalidToken",
                                  "ErrExpiredToken", "ErrInternalServer"}
             /\ procs[p].cause \in {"storage", "signing", "conflict"}
                    => procs[p].res = "ErrInternalServer"

\* a refresh whose storage statement failed and a login whose token could not
\* be signed have both returned
C26_Witness ==
    \E p, q \in Procs :
        /\ procs[p].pc = "done" /\ procs[p].op = "Refresh"
        /\ procs[p].cause = "storage"
        /\ procs[q].pc = "done" /\ procs[q].op = "Login"
        /\ procs[q].cause = "signing"

\* a handler is about to call DeleteSession for the row it has looked up
Deleting(p) == procs[p].pc \in {"refresh_delete", "logout_delete"}

\* C27: the deletes of the session store are idempotent in state and in
\* result: DeleteSession of an id without row and DeleteUserSessions of a
\* user without sessions return nil and change nothing, and a second
\* application returns nil like the first and leaves the state of the first.
C27_DeletesIdempotent ==
    /\ \A p \in Procs :
          Deleting(p) =>
            LET id == procs[p].sess.id
                once == DeleteSession(sessions, id)
            IN /\ DeleteSession(once, id) = once
               /\ DeleteSessionErr(once, id) = "nil"
               /\ (\A s \in sessions : s.id # id)
                      => once = sessions /\ DeleteSessionErr(sessions, id) = "nil"
    /\ \A userID \in UserIDs :
          LET once == DeleteUserSessions(sessions, userID)
          IN /\ DeleteUserSessions(once, userID) = once
             /\ DeleteUserSessionsErr(once, userID) = "nil"
             /\ DeleteUserSessionsErr(sessions, userID) = "nil"

\* C27 as amended: both deletes are idempotent in state; DeleteUserSessions
\* returns nil whether or not the user has sessions; DeleteSession returns
\* nil when it removed the row and ErrSessionNotFound, with the store
\* unchanged, when no row has the id, so its second application returns
\* ErrSessionNotFound.
C27_DeletesIdempotentInState ==
    /\ \A p \in Procs :
          Deleting(p) =>
            LET id == procs[p].sess.id
                once == DeleteSession(sessions, id)
            IN /\ DeleteSession(once, id) = once
               /\ \A s \in once : s.id # id
               /\ DeleteSessionErr(once, id) = "ErrSessionNotFound"
               /\ (\A s \in sessions : s.id # id)
                      => /\ once = sessions
                         /\ DeleteSessionErr(sessions, id) = "ErrSessionNotFound"
               /\ (\E s \in sessions : s.id = id)
                      => /\ once = sessions \ {procs[p].sess}
                         /\ DeleteSessionErr(sessions, id) = "nil"
    /\ \A userID \in UserIDs :
          LET once == DeleteUserSessions(sessions, userID)
          IN /\ DeleteUserSessions(once, userID) = once
             /\ \A s \in once : s.user # userID
             /\ DeleteUserSessionsErr(once, userID) = "nil"
             /\ DeleteUserSessionsErr(sessions, userID) = "nil"

\* a handler is about to delete a row that another call has already deleted,
\* while another handler is about to delete a row that is there
C27_Witness ==
    \E p, q \in Procs :
        /\ Deleting(p) /\ \A s \in sessions : s.id # procs[p].sess.id
        /\ Deleting(q) /\ procs[q].sess \in sessions

\* a validator of the authority has just been applied to a token
Validated == call.op \in {"ValidateAccessToken", "ValidateRefreshToken"}
\* the secret that validator verifies signatures with
SecretOf(op) ==
    IF op = "ValidateAccessToken" THEN cfg.accessSecret ELSE cfg.refreshSecret
\* the presented token is not an HS256 token signed with that secret
SignatureFails == call.token.alg # "HS256" \/ call.token.key # SecretOf(call.op)
\* the presented token lacks a claim that validator reads
ShapeFails ==
    \/ call.token.claims.user_id = <<>>
    \/ call.op = "ValidateAccessToken" /\ call.token.claims.telegram_id = <<>>
\* its expiry was not in the future when the validator was applied
Expired == ~(call.when < call.token.claims.exp)

\* C21: whatever the two secrets are, ValidateRefreshToken rejects the access
\* token that generateAccessToken has produced, and ValidateAccessToken
\* rejects the refresh token that generateRefreshToken has produced.
C21_NeverMutuallyValid ==
    /\ (call.op = "ValidateRefreshToken" /\ call.token = call.access)
          => call.res[1] # "nil"
    /\ (call.op = "ValidateAccessToken" /\ call.token = call.refresh)
          => call.res[1] # "nil"

\* C22: ValidateAccessToken applied to the access token just issued for
\* (userID, telegramID) returns exactly that pair, and ValidateRefreshToken
\* applied to the refresh token just issued for userID returns that userID.
C22_RoundTrip ==
    /\ (call.op = "ValidateAccessToken" /\ call.token = call.access
           /\ call.at = call.when)
          => call.res = <<"nil", <<call.userID>>, <<call.telegramID>>>>
    /\ (call.op = "ValidateRefreshToken" /\ call.token = call.refresh
           /\ call.at = call.when)
          => call.res = <<"nil", <<call.userID>>>>

\* C23: both validators return ErrExpiredToken for a token whose expiry is
\* in the past, and ErrInvalidToken for a token whose signature, algorithm or
\* claims are not as expected.
C23_ExpiredNotInvalid ==
    Validated
      => /\ Expired => call.res[1] = "ErrExpiredToken"
         /\ (SignatureFails \/ ShapeFails) => call.res[1] = "ErrInvalidToken"

\* C23 as amended: a token whose algorithm or signature is refused yields
\* ErrInvalidToken whatever its expiry; a token that verifies and whose
\* expiry is in the past yields ErrExpiredToken whatever its other claims; a
\* token that verifies, has not expired and lacks a claim the validator reads
\* yields ErrInvalidToken; any other token is accepted.
C23_ExpiredIfVerified ==
    Validated
      => /\ SignatureFails => call.res[1] = "ErrInvalidToken"
         /\ (~SignatureFails /\ Expired) => call.res[1] = "ErrExpiredToken"
         /\ (~SignatureFails /\ ~Expired /\ ShapeFails)
                => call.res[1] = "ErrInvalidToken"
         /\ (~SignatureFails /\ ~Expired /\ ~ShapeFails) => call.res[1] = "nil"

\* the access token the authority issued has expired with the passing of
\* time and ValidateAccessToken has said so
C23_Witness ==
    /\ call.op = "ValidateAccessToken"
    /\ call.token = call.access
    /\ call.at < call.when
    /\ call.res[1] = "ErrExpiredToken"

\* C30: NewTelegramAuth replaces an access TTL of 0 by 15 minutes and a
\* refresh TTL of 0 by 7 days and keeps any other value; the refresh token
\* that GenerateTokens issues and the session made for it expire at the same
\* moment, the refresh TTL after the call.
C30_TTLDefaults ==
    /\ [][cfg' # cfg
            => /\ cfg'.accessTTL =
                     IF cfg.accessTTL = 0 THEN DefaultAccessTTL ELSE cfg.accessTTL
               /\ cfg'.refreshTTL =
                     IF cfg.refreshTTL = 0 THEN DefaultRefreshTTL ELSE cfg.refreshTTL]_vars
    /\ [](call.op # "none"
            => /\ call.refresh.claims.exp = call.at + cfg.refreshTTL
               /\ call.expiresAt = call.at + cfg.refreshTTL
               /\ call.access.claims.exp = call.at + cfg.accessTTL
               /\ cfg.refreshTTL # 0 /\ cfg.accessTTL # 0)

\* the configuration named a refresh TTL and no access TTL, and tokens have
\* been issued under it
C30_Witness ==
    /\ cfg.started
    /\ cfg.accessTTL = DefaultAccessTTL
    /\ cfg.refreshTTL = 2
    /\ call.op = "GenerateTokens"

\* what a Submit or a Shutdown call may do to the channels in one step
C31_Step ==
    /\ pool'.nSub # pool.nSub /\ pool'.last = TRUE => ~tasksClosed
    /\ \A c \in ShutCallers :
          pool.sh[c].pc = "idle" /\ pool'.sh[c].pc # "idle" /\ isShutDown
              => /\ pool'.sh[c].pc = "returned"
                 /\ sd' = sd
                 /\ tasks' = tasks
    /\ \A c \in ShutCallers :
          /\ pool'.sh[c].pc = "close_shutdown" /\ pool.sh[c].pc # "close_shutdown"
                => ~tasksClosed
          /\ pool.sh[c].pc = "close_shutdown" /\ pool'.sh[c].pc # "close_shutdown"
                => ~shutdownClosed

\* C31: under any interleaving of Submit and Shutdown calls no task is sent
\* on the closed tasks channel and neither channel is closed twice, so nothing
\* panics: an accepting Submit sends while the tasks channel is open, and a
\* Shutdown call that finds isShutDown set returns without closing anything.
C31_NoChannelPanic ==
    /\ [](pool.panic = {})
    /\ [][C31_Step]_vars
    /\ [](Cardinality({c \in ShutCallers :
                          pool.sh[c].pc \in {"close_tasks", "close_shutdown", "waiting"}
                          \/ (pool.sh[c].pc = "returned" /\ ~pool.sh[c].early)}) <= 1)

\* both channels are closed by one caller, the other caller returned early,
\* a task was accepted before and one was refused after the flag was set
C31_Witness ==
    /\ shutdownClosed
    /\ \E c, d \in ShutCallers :
          /\ pool.sh[c].pc = "returned" /\ ~pool.sh[c].early
          /\ pool.sh[d].pc = "returned" /\ pool.sh[d].early
    /\ pool.ran # {}
    /\ pool.last = FALSE
    /\ Len(tasks) < QueueSize

\* the tasks for which Submit returned true
Accepted == (1..pool.nSub) \ pool.dropped

\* the tasks a worker is executing
Running == {wk[w].task.id : w \in {v \in Workers : wk[v].st = "busy"}}

C33_DrainLosesNothing ==
    \A c \in ShutCallers :
        pool.sh[c].pc = "returned" /\ pool.sh[c].wait /\ ~pool.sh[c].early
            => Accepted \subseteq pool.ran

\* the session rows that a call of this behaviour had persisted
Persisted == sessions \ {PreSession, PreSession2}

\* the sessions handed to the pool and not yet stored
Submitted ==
    {tasks[i].session : i \in 1..Len(tasks)}
        \cup {wk[w].task.session : w \in {v \in Workers : wk[v].st = "busy"}}

\* the step of a Login or a Refresh that issues the token pair
C34_Step ==
    \A p \in Procs :
        procs'[p].out # NoTok /\ procs[p].out = NoTok =>
            /\ procs[p].pc \in {"login_issue", "refresh_issue"}
            /\ procs'[p].out.uid = procs[p].user.id
            /\ procs[p].op = "Login" => procs[p].user.tg = procs[p].tg
            /\ procs[p].op = "Refresh" =>
                  /\ procs[p].sess.user = procs[p].user.id
                  /\ procs[p].sess.tok = procs[p].tok

\* C34: every session row that Login or Refresh persists is owned by the user
\* whose id is in the refresh token of the row; a Login issues the tokens for
\* the user of the presented identity, and a Refresh of a session owned by U
\* issues the new tokens and the new session for U and for no other user.
C34_SessionOwnerIsTokenSubject ==
    /\ [](\A s \in Persisted \cup Submitted : s.user = s.tok.uid)
    /\ [](\A p \in Procs :
            procs[p].op = "Refresh" /\ procs[p].out # NoTok
                => procs[p].sess.user = procs[p].out.uid)
    /\ [][C34_Step]_vars

\* a Refresh of a stored session has returned and the new session is stored
\* for the owner of the old one, while a Login has registered another user
C34_Witness ==
    \E p \in Procs :
        /\ procs[p].op = "Refresh" /\ procs[p].out # NoTok
        /\ procs[p].sess = PreSession2
        /\ \E s \in Persisted : s.tok = procs[p].out /\ s.user = PreUser2.id
        /\ Cardinality(users) = 2

\* the RefreshTokens calls that returned an error
FailedRefresh ==
    {p \in Procs : procs[p].op = "Refresh" /\ procs[p].pc = "done"
                   /\ procs[p].res # "ok"}

\* C35 as worded: a RefreshTokens call that returns any error has deleted no
\* session row and has submitted no persistence task.
C35_FailedRefreshChangesNothing ==
    \A p \in FailedRefresh : ~procs[p].removed /\ procs[p].sub = "none"

\* C35, amended: a RefreshTokens call that returns an error issues no token
\* and submits no persistence task; when the error is ErrExpiredToken or
\* ErrInvalidToken it has deleted nothing, and when it is ErrInternalServer it
\* has deleted the row of the presented token only if the failure was that of
\* GenerateTokens, which runs after DeleteSession.
C35_FailedRefreshSubmitsNothing ==
    \A p \in FailedRefresh :
        /\ procs[p].res \in {"ErrExpiredToken", "ErrInvalidToken", "ErrInternalServer"}
        /\ procs[p].out = NoTok
        /\ procs[p].sub = "none"
        /\ procs[p].removed =>
              /\ procs[p].res = "ErrInternalServer"
              /\ procs[p].cause = "signing"
              /\ procs[p].sess.tok = procs[p].tok

\* a RefreshTokens call has failed at GenerateTokens: the row of the presented
\* token is gone, no token was issued and no task submitted
C35_Witness ==
    \E p \in FailedRefresh :
        /\ procs[p].removed /\ procs[p].cause = "signing"
        /\ GetSessionByToken(sessions, procs[p].tok) = {}
        /\ tasks = <<>> /\ \A w \in Workers : wk[w].st = "idle"

\* what a step of a Logout or a RefreshTokens call does to the two tables
C36_Step ==
    \A p \in Procs :
        procs'[p] # procs[p] /\ procs'[p].op \in {"Logout", "Refresh"} =>
            /\ users' = users
            /\ sessions' \subseteq sessions
            /\ sessions \ sessions' \subseteq
                  {s \in sessions : s.tok = procs'[p].tok /\ s = procs'[p].sess}
            /\ Cardinality(sessions \ sessions') <= 1
            /\ sessions' # sessions => procs'[p].removed /\ Deleting(p)

\* C36: Logout(r) deletes at most the one session row whose refresh token is
\* r and leaves every other session row, the other sessions of the same user
\* included, and every user row unchanged; RefreshTokens(r) likewise deletes
\* only the row found for r.
C36_DeletesOnlyTheRowOfTheToken ==
    [][C36_Step]_vars

\* a Logout has removed one of the two sessions of a user and the other one
\* is still stored
C36_Witness ==
    \E p \in Procs :
        /\ Returned(p, "Logout") /\ procs[p].removed
        /\ procs[p].sess = PreSession
        /\ PreSession \notin sessions
        /\ PreSession2 \in sessions
        /\ PreSession2.user = PreSession.user

\* C37: when the storage engine and the token signing are healthy, every
\* AuthWithTelegram call with a valid payload returns a token pair, two
\* concurrent first logins of one not yet registered identity included. (A
\* login whose user row a concurrent DeleteUser removed is left out.)
C37_ValidLoginReturnsTokens ==
    \A p \in Procs :
        /\ procs[p].op = "Login" /\ procs[p].pc = "done"
        /\ NoFault(p)
        /\ procs[p].cause \notin InitDataCauses \cup {"usergone"}
        => procs[p].res = "ok" /\ procs[p].out # NoTok

\* C38: DeleteUser is all-or-nothing: a DeleteUser(U) call that returns an
\* error has changed neither the users table nor the sessions table, and when
\* it returns nil the user row and all the session rows of U are gone.
C38_DeleteUserAllOrNothing ==
    \A p \in Procs :
        procs[p].op = "DeleteUser" /\ procs[p].pc = "done" =>
            /\ procs[p].res # "ok" =>
                  /\ procs[p].res \in {"ErrUserNotFound", "ErrInternalServer"}
                  /\ ~procs[p].removed
            /\ procs[p].res = "ok" =>
                  /\ GetByID(users, procs[p].uid) = {}
                  /\ \A s \in sessions : s.user # procs[p].uid

====
